---- MODULE Spec2Model ----
(***************************************************************************)
(* A model of supa_slurm.py: SlurmConfig (directive store and renderer),   *)
(* Slurm (job manager: add_arguments, add_commands, sbatch) and SlurmJob   *)
(* (job handle: get_status, is_queued, hold_for_completion, cancel).       *)
(*                                                                         *)
(* Python strings are sequences of one-character strings, so that split,   *)
(* strip, replace, int() and the regular-expression search are computed.   *)
(* Python values are records [t, s, n, m, k, items] tagged by their type.  *)
(*                                                                         *)
(* A character is written as itself when it is printable ASCII, as "\t",   *)
(* "\n", "\r", "\f" when it is one of these four, and by its code point,    *)
(* "U+0663", in every other case.                                          *)
(***************************************************************************)
EXTENDS Integers, Sequences, FiniteSets, TLC

(* ------------------------------------------------------------------ *)
(* Bounds of the model                                                 *)
(* ------------------------------------------------------------------ *)
MaxCmds == 2
MaxPolls == 3
MaxIndex == 10
MaxDays == 11

(* ------------------------------------------------------------------ *)
(* String literals                                                     *)
(* ------------------------------------------------------------------ *)
DigitChars == <<"0", "1", "2", "3", "4", "5", "6", "7", "8", "9">>

(* the decimal digits of Unicode (category Nd), one row per script, each   *)
(* row in the order of the values 0 to 9: what \d of a str pattern matches  *)
(* and what int() reads as a digit                                          *)
DigitRows ==
    << DigitChars,
       <<"U+0660", "U+0661", "U+0662", "U+0663", "U+0664", "U+0665", "U+0666", "U+0667", "U+0668", "U+0669">>,
       <<"U+06F0", "U+06F1", "U+06F2", "U+06F3", "U+06F4", "U+06F5", "U+06F6", "U+06F7", "U+06F8", "U+06F9">>,
       <<"U+07C0", "U+07C1", "U+07C2", "U+07C3", "U+07C4", "U+07C5", "U+07C6", "U+07C7", "U+07C8", "U+07C9">>,
       <<"U+0966", "U+0967", "U+0968", "U+0969", "U+096A", "U+096B", "U+096C", "U+096D", "U+096E", "U+096F">>,
       <<"U+09E6", "U+09E7", "U+09E8", "U+09E9", "U+09EA", "U+09EB", "U+09EC", "U+09ED", "U+09EE", "U+09EF">>,
       <<"U+0A66", "U+0A67", "U+0A68", "U+0A69", "U+0A6A", "U+0A6B", "U+0A6C", "U+0A6D", "U+0A6E", "U+0A6F">>,
       <<"U+0AE6", "U+0AE7", "U+0AE8", "U+0AE9", "U+0AEA", "U+0AEB", "U+0AEC", "U+0AED", "U+0AEE", "U+0AEF">>,
       <<"U+0B66", "U+0B67", "U+0B68", "U+0B69", "U+0B6A", "U+0B6B", "U+0B6C", "U+0B6D", "U+0B6E", "U+0B6F">>,
       <<"U+0BE6", "U+0BE7", "U+0BE8", "U+0BE9", "U+0BEA", "U+0BEB", "U+0BEC", "U+0BED", "U+0BEE", "U+0BEF">>,
       <<"U+0C66", "U+0C67", "U+0C68", "U+0C69", "U+0C6A", "U+0C6B", "U+0C6C", "U+0C6D", "U+0C6E", "U+0C6F">>,
       <<"U+0CE6", "U+0CE7", "U+0CE8", "U+0CE9", "U+0CEA", "U+0CEB", "U+0CEC", "U+0CED", "U+0CEE", "U+0CEF">>,
       <<"U+0D66", "U+0D67", "U+0D68", "U+0D69", "U+0D6A", "U+0D6B", "U+0D6C", "U+0D6D", "U+0D6E", "U+0D6F">>,
       <<"U+0DE6", "U+0DE7", "U+0DE8", "U+0DE9", "U+0DEA", "U+0DEB", "U+0DEC", "U+0DED", "U+0DEE", "U+0DEF">>,
       <<"U+0E50", "U+0E51", "U+0E52", "U+0E53", "U+0E54", "U+0E55", "U+0E56", "U+0E57", "U+0E58", "U+0E59">>,
       <<"U+0ED0", "U+0ED1", "U+0ED2", "U+0ED3", "U+0ED4", "U+0ED5", "U+0ED6", "U+0ED7", "U+0ED8", "U+0ED9">>,
       <<"U+0F20", "U+0F21", "U+0F22", "U+0F23", "U+0F24", "U+0F25", "U+0F26", "U+0F27", "U+0F28", "U+0F29">>,
       <<"U+1040", "U+1041", "U+1042", "U+1043", "U+1044", "U+1045", "U+1046", "U+1047", "U+1048", "U+1049">>,
       <<"U+1090", "U+1091", "U+1092", "U+1093", "U+1094", "U+1095", "U+1096", "U+1097", "U+1098", "U+1099">>,
       <<"U+17E0", "U+17E1", "U+17E2", "U+17E3", "U+17E4", "U+17E5", "U+17E6", "U+17E7", "U+17E8", "U+17E9">>,
       <<"U+1810", "U+1811", "U+1812", "U+1813", "U+1814", "U+1815", "U+1816", "U+1817", "U+1818", "U+1819">>,
       <<"U+1946", "U+1947", "U+1948", "U+1949", "U+194A", "U+194B", "U+194C", "U+194D", "U+194E", "U+194F">>,
       <<"U+19D0", "U+19D1", "U+19D2", "U+19D3", "U+19D4", "U+19D5", "U+19D6", "U+19D7", "U+19D8", "U+19D9">>,
       <<"U+1A80", "U+1A81", "U+1A82", "U+1A83", "U+1A84", "U+1A85", "U+1A86", "U+1A87", "U+1A88", "U+1A89">>,
       <<"U+1A90", "U+1A91", "U+1A92", "U+1A93", "U+1A94", "U+1A95", "U+1A96", "U+1A97", "U+1A98", "U+1A99">>,
       <<"U+1B50", "U+1B51", "U+1B52", "U+1B53", "U+1B54", "U+1B55", "U+1B56", "U+1B57", "U+1B58", "U+1B59">>,
       <<"U+1BB0", "U+1BB1", "U+1BB2", "U+1BB3", "U+1BB4", "U+1BB5", "U+1BB6", "U+1BB7", "U+1BB8", "U+1BB9">>,
       <<"U+1C40", "U+1C41", "U+1C42", "U+1C43", "U+1C44", "U+1C45", "U+1C46", "U+1C47", "U+1C48", "U+1C49">>,
       <<"U+1C50", "U+1C51", "U+1C52", "U+1C53", "U+1C54", "U+1C55", "U+1C56", "U+1C57", "U+1C58", "U+1C59">>,
       <<"U+A620", "U+A621", "U+A622", "U+A623", "U+A624", "U+A625", "U+A626", "U+A627", "U+A628", "U+A629">>,
       <<"U+A8D0", "U+A8D1", "U+A8D2", "U+A8D3", "U+A8D4", "U+A8D5", "U+A8D6", "U+A8D7", "U+A8D8", "U+A8D9">>,
       <<"U+A900", "U+A901", "U+A902", "U+A903", "U+A904", "U+A905", "U+A906", "U+A907", "U+A908", "U+A909">>,
       <<"U+A9D0", "U+A9D1", "U+A9D2", "U+A9D3", "U+A9D4", "U+A9D5", "U+A9D6", "U+A9D7", "U+A9D8", "U+A9D9">>,
       <<"U+A9F0", "U+A9F1", "U+A9F2", "U+A9F3", "U+A9F4", "U+A9F5", "U+A9F6", "U+A9F7", "U+A9F8", "U+A9F9">>,
       <<"U+AA50", "U+AA51", "U+AA52", "U+AA53", "U+AA54", "U+AA55", "U+AA56", "U+AA57", "U+AA58", "U+AA59">>,
       <<"U+ABF0", "U+ABF1", "U+ABF2", "U+ABF3", "U+ABF4", "U+ABF5", "U+ABF6", "U+ABF7", "U+ABF8", "U+ABF9">>,
       <<"U+FF10", "U+FF11", "U+FF12", "U+FF13", "U+FF14", "U+FF15", "U+FF16", "U+FF17", "U+FF18", "U+FF19">>,
       <<"U+104A0", "U+104A1", "U+104A2", "U+104A3", "U+104A4", "U+104A5", "U+104A6", "U+104A7", "U+104A8", "U+104A9">>,
       <<"U+10D30", "U+10D31", "U+10D32", "U+10D33", "U+10D34", "U+10D35", "U+10D36", "U+10D37", "U+10D38", "U+10D39">>,
       <<"U+11066", "U+11067", "U+11068", "U+11069", "U+1106A", "U+1106B", "U+1106C", "U+1106D", "U+1106E", "U+1106F">>,
       <<"U+110F0", "U+110F1", "U+110F2", "U+110F3", "U+110F4", "U+110F5", "U+110F6", "U+110F7", "U+110F8", "U+110F9">>,
       <<"U+11136", "U+11137", "U+11138", "U+11139", "U+1113A", "U+1113B", "U+1113C", "U+1113D", "U+1113E", "U+1113F">>,
       <<"U+111D0", "U+111D1", "U+111D2", "U+111D3", "U+111D4", "U+111D5", "U+111D6", "U+111D7", "U+111D8", "U+111D9">>,
       <<"U+112F0", "U+112F1", "U+112F2", "U+112F3", "U+112F4", "U+112F5", "U+112F6", "U+112F7", "U+112F8", "U+112F9">>,
       <<"U+11450", "U+11451", "U+11452", "U+11453", "U+11454", "U+11455", "U+11456", "U+11457", "U+11458", "U+11459">>,
       <<"U+114D0", "U+114D1", "U+114D2", "U+114D3", "U+114D4", "U+114D5", "U+114D6", "U+114D7", "U+114D8", "U+114D9">>,
       <<"U+11650", "U+11651", "U+11652", "U+11653", "U+11654", "U+11655", "U+11656", "U+11657", "U+11658", "U+11659">>,
       <<"U+116C0", "U+116C1", "U+116C2", "U+116C3", "U+116C4", "U+116C5", "U+116C6", "U+116C7", "U+116C8", "U+116C9">>,
       <<"U+11730", "U+11731", "U+11732", "U+11733", "U+11734", "U+11735", "U+11736", "U+11737", "U+11738", "U+11739">>,
       <<"U+118E0", "U+118E1", "U+118E2", "U+118E3", "U+118E4", "U+118E5", "U+118E6", "U+118E7", "U+118E8", "U+118E9">>,
       <<"U+11950", "U+11951", "U+11952", "U+11953", "U+11954", "U+11955", "U+11956", "U+11957", "U+11958", "U+11959">>,
       <<"U+11C50", "U+11C51", "U+11C52", "U+11C53", "U+11C54", "U+11C55", "U+11C56", "U+11C57", "U+11C58", "U+11C59">>,
       <<"U+11D50", "U+11D51", "U+11D52", "U+11D53", "U+11D54", "U+11D55", "U+11D56", "U+11D57", "U+11D58", "U+11D59">>,
       <<"U+11DA0", "U+11DA1", "U+11DA2", "U+11DA3", "U+11DA4", "U+11DA5", "U+11DA6", "U+11DA7", "U+11DA8", "U+11DA9">>,
       <<"U+16A60", "U+16A61", "U+16A62", "U+16A63", "U+16A64", "U+16A65", "U+16A66", "U+16A67", "U+16A68", "U+16A69">>,
       <<"U+16AC0", "U+16AC1", "U+16AC2", "U+16AC3", "U+16AC4", "U+16AC5", "U+16AC6", "U+16AC7", "U+16AC8", "U+16AC9">>,
       <<"U+16B50", "U+16B51", "U+16B52", "U+16B53", "U+16B54", "U+16B55", "U+16B56", "U+16B57", "U+16B58", "U+16B59">>,
       <<"U+1D7CE", "U+1D7CF", "U+1D7D0", "U+1D7D1", "U+1D7D2", "U+1D7D3", "U+1D7D4", "U+1D7D5", "U+1D7D6", "U+1D7D7">>,
       <<"U+1D7D8", "U+1D7D9", "U+1D7DA", "U+1D7DB", "U+1D7DC", "U+1D7DD", "U+1D7DE", "U+1D7DF", "U+1D7E0", "U+1D7E1">>,
       <<"U+1D7E2", "U+1D7E3", "U+1D7E4", "U+1D7E5", "U+1D7E6", "U+1D7E7", "U+1D7E8", "U+1D7E9", "U+1D7EA", "U+1D7EB">>,
       <<"U+1D7EC", "U+1D7ED", "U+1D7EE", "U+1D7EF", "U+1D7F0", "U+1D7F1", "U+1D7F2", "U+1D7F3", "U+1D7F4", "U+1D7F5">>,
       <<"U+1D7F6", "U+1D7F7", "U+1D7F8", "U+1D7F9", "U+1D7FA", "U+1D7FB", "U+1D7FC", "U+1D7FD", "U+1D7FE", "U+1D7FF">>,
       <<"U+1E140", "U+1E141", "U+1E142", "U+1E143", "U+1E144", "U+1E145", "U+1E146", "U+1E147", "U+1E148", "U+1E149">>,
       <<"U+1E2F0", "U+1E2F1", "U+1E2F2", "U+1E2F3", "U+1E2F4", "U+1E2F5", "U+1E2F6", "U+1E2F7", "U+1E2F8", "U+1E2F9">>,
       <<"U+1E950", "U+1E951", "U+1E952", "U+1E953", "U+1E954", "U+1E955", "U+1E956", "U+1E957", "U+1E958", "U+1E959">>,
       <<"U+1FBF0", "U+1FBF1", "U+1FBF2", "U+1FBF3", "U+1FBF4", "U+1FBF5", "U+1FBF6", "U+1FBF7", "U+1FBF8", "U+1FBF9">> >>

DecimalDigits == UNION { { DigitRows[r][i] : i \in 1..10 } : r \in 1..Len(DigitRows) }

IsDigit(c) == c \in DecimalDigits

DigitVal(c) ==
    (CHOOSE i \in 1..10 : \E r \in 1..Len(DigitRows) : DigitRows[r][i] = c) - 1

(* the characters str.strip() removes: those str.isspace() is true of *)
SpaceChars ==
    { " ", "\t", "\n", "\r", "\f", "U+000B", "U+001C", "U+001D", "U+001E", "U+001F",
      "U+0085", "U+00A0", "U+1680", "U+2000", "U+2001", "U+2002", "U+2003",
      "U+2004", "U+2005", "U+2006", "U+2007", "U+2008", "U+2009", "U+200A",
      "U+2028", "U+2029", "U+202F", "U+205F", "U+3000" }

IsSpace(c) == c \in SpaceChars

(* the characters int() skips around the number: the same without the four *)
(* ASCII separators U+001C to U+001F                                        *)
IsIntSpace(c) == c \in SpaceChars \ {"U+001C", "U+001D", "U+001E", "U+001F"}

S_bin_bash == <<"/", "b", "i", "n", "/", "b", "a", "s", "h">>
S_bin_zsh == <<"/", "b", "i", "n", "/", "z", "s", "h">>
S_shebang == <<"#", "!">>
S_sbatch_line == <<"\n", "#", "S", "B", "A", "T", "C", "H", " ", "-", "-">>
S_submitted == <<"S", "u", "b", "m", "i", "t", "t", "e", "d", " ",
                 "b", "a", "t", "c", "h", " ", "j", "o", "b", " ">>
S_PENDING == <<"P", "E", "N", "D", "I", "N", "G">>
S_RUNNING == <<"R", "U", "N", "N", "I", "N", "G">>
S_COMPLETING == <<"C", "O", "M", "P", "L", "E", "T", "I", "N", "G">>
S_NOT_FOUND == <<"C", "O", "M", "P", "L", "E", "T", "E", "D", " ", "o", "r", " ",
                 "N", "O", "T", " ", "F", "O", "U", "N", "D">>

K_partition == <<"p", "a", "r", "t", "i", "t", "i", "o", "n">>
K_time == <<"t", "i", "m", "e">>
K_job_name == <<"j", "o", "b", "_", "n", "a", "m", "e">>
K_array == <<"a", "r", "r", "a", "y">>
K_shell == <<"s", "h", "e", "l", "l">>
N_args == <<"_", "a", "r", "g", "s">>
N_commands == <<"_", "c", "o", "m", "m", "a", "n", "d", "s">>
N_add_command == <<"a", "d", "d", "_", "c", "o", "m", "m", "a", "n", "d">>
N_is_array_job == <<"i", "s", "_", "a", "r", "r", "a", "y", "_", "j", "o", "b">>
N_from_yaml == <<"f", "r", "o", "m", "_", "y", "a", "m", "l">>
N_self == <<"s", "e", "l", "f">>

(* ------------------------------------------------------------------ *)
(* Python string operations                                            *)
(* ------------------------------------------------------------------ *)
(* str.replace(old, new) for one-character old and new *)
Replace(s, old, new) == [i \in 1..Len(s) |-> IF s[i] = old THEN new ELSE s[i]]

(* str.split(sep) for a one-character sep: always at least one piece *)
RECURSIVE SplitFrom(_, _, _)
SplitFrom(s, sep, cur) ==
    IF s = <<>> THEN <<cur>>
    ELSE IF Head(s) = sep THEN <<cur>> \o SplitFrom(Tail(s), sep, <<>>)
    ELSE SplitFrom(Tail(s), sep, Append(cur, Head(s)))

Split(s, sep) == SplitFrom(s, sep, <<>>)

(* str.split(sep, 1): at most one cut, at the first sep *)
Split1(s, sep) ==
    IF \E i \in 1..Len(s) : s[i] = sep
    THEN LET i == CHOOSE j \in 1..Len(s) :
                      s[j] = sep /\ \A h \in 1..(j - 1) : s[h] # sep
         IN <<SubSeq(s, 1, i - 1), SubSeq(s, i + 1, Len(s))>>
    ELSE <<s>>

(* str.strip(): drops leading and trailing whitespace *)
Strip(s) ==
    IF \A i \in 1..Len(s) : IsSpace(s[i]) THEN <<>>
    ELSE LET a == CHOOSE i \in 1..Len(s) :
                      ~IsSpace(s[i]) /\ \A h \in 1..(i - 1) : IsSpace(s[h])
             b == CHOOSE i \in 1..Len(s) :
                      ~IsSpace(s[i]) /\ \A h \in (i + 1)..Len(s) : IsSpace(s[h])
         IN SubSeq(s, a, b)

(* str(n) for an integer: decimal digits, "-" in front of a negative *)
RECURSIVE NatStr(_)
NatStr(n) == IF n < 10 THEN <<DigitChars[n + 1]>>
             ELSE NatStr(n \div 10) \o <<DigitChars[(n % 10) + 1]>>

IntStr(n) == IF n < 0 THEN <<"-">> \o NatStr(0 - n) ELSE NatStr(n)

(* f'{n:02}': at least two digits, zero-padded *)
Pad2(n) == IF n < 10 THEN <<"0">> \o NatStr(n) ELSE NatStr(n)

RECURSIVE DigitsVal(_, _)
DigitsVal(s, acc) == IF s = <<>> THEN acc
                     ELSE DigitsVal(Tail(s), acc * 10 + DigitVal(Head(s)))

(* the text int() reads once the whitespace around it is dropped *)
IntStrip(s) ==
    IF \A i \in 1..Len(s) : IsIntSpace(s[i]) THEN <<>>
    ELSE LET a == CHOOSE i \in 1..Len(s) :
                      ~IsIntSpace(s[i]) /\ \A h \in 1..(i - 1) : IsIntSpace(s[h])
             b == CHOOSE i \in 1..Len(s) :
                      ~IsIntSpace(s[i]) /\ \A h \in (i + 1)..Len(s) : IsIntSpace(s[h])
         IN SubSeq(s, a, b)

(* an unsigned decimal literal: digits, with single underscores allowed     *)
(* between two digits                                                       *)
IsDecimalLiteral(d) ==
    /\ d # <<>>
    /\ \A i \in 1..Len(d) : IsDigit(d[i]) \/ d[i] = "_"
    /\ IsDigit(d[1]) /\ IsDigit(d[Len(d)])
    /\ \A i \in 1..(Len(d) - 1) : ~(d[i] = "_" /\ d[i + 1] = "_")

(* int() of a text t with no whitespace around it: one sign allowed, then a *)
(* decimal literal; anything else is a ValueError (ok = FALSE)              *)
ParseSigned(t) ==
    CHOOSE r \in
        { IF IsDecimalLiteral(d)
          THEN [ok |-> TRUE,
                n |-> IF Head(t) = "-" THEN 0 - DigitsVal(SelectSeq(d, IsDigit), 0)
                      ELSE DigitsVal(SelectSeq(d, IsDigit), 0)]
          ELSE [ok |-> FALSE, n |-> 0] :
            d \in {IF t # <<>> /\ Head(t) \in {"-", "+"} THEN Tail(t) ELSE t} } : TRUE

(* int(s): the whitespace around the number is dropped first *)
ParseInt(s) == CHOOSE r \in { ParseSigned(t) : t \in {IntStrip(s)} } : TRUE

(* ------------------------------------------------------------------ *)
(* Python values                                                       *)
(* ------------------------------------------------------------------ *)
Val(t, s, n, m, k, items) ==
    [t |-> t, s |-> s, n |-> n, m |-> m, k |-> k, items |-> items]

NoneVal == Val("none", <<>>, 0, 0, 0, <<>>)
(* what attrs holds for a name the object has no attribute of: reading it   *)
(* raises AttributeError, where an attribute holding None reads None        *)
NoAttr == Val("absent", <<>>, 0, 0, 0, <<>>)
StrVal(s) == Val("str", s, 0, 0, 0, <<>>)
IntVal(n) == Val("int", <<>>, n, 0, 0, <<>>)
(* datetime.timedelta of n whole seconds *)
TimedeltaVal(n) == Val("timedelta", <<>>, n, 0, 0, <<>>)
(* range(start, stop, step), step # 0 *)
RangeVal(start, stop, step) == Val("range", <<>>, start, stop, step, <<>>)
(* a tuple of integers *)
TupleVal(items) == Val("tuple", <<>>, 0, 0, 0, items)
(* a list of integers *)
ListVal(items) == Val("list", <<>>, 0, 0, 0, items)

(* len(range(start, stop, step)) *)
RangeLen(v) ==
    IF v.k > 0
    THEN IF v.m <= v.n THEN 0 ELSE ((v.m - v.n - 1) \div v.k) + 1
    ELSE IF v.m >= v.n THEN 0 ELSE ((v.n - v.m - 1) \div (0 - v.k)) + 1

(* list(v): the items a for-loop over v visits, each as a value *)
Items(v) ==
    CASE v.t = "range" -> [i \in 1..RangeLen(v) |-> IntVal(v.n + (i - 1) * v.k)]
      [] v.t \in {"tuple", "list"} -> [i \in 1..Len(v.items) |-> IntVal(v.items[i])]
      [] v.t = "str" -> [i \in 1..Len(v.s) |-> StrVal(<<v.s[i]>>)]
      [] OTHER -> <<>>

IsIterable(v) == v.t \in {"range", "tuple", "list", "str"}

(* ", ".join of the integers *)
RECURSIVE JoinInts(_)
JoinInts(items) ==
    IF items = <<>> THEN <<>>
    ELSE IF Len(items) = 1 THEN IntStr(items[1])
    ELSE IntStr(Head(items)) \o <<",", " ">> \o JoinInts(Tail(items))

(* str(datetime.timedelta(seconds = total_s)): [D day[s], ]H:MM:SS *)
StrTimedelta(total_s) ==
    LET days == total_s \div 86400
        rem == total_s % 86400
        hh == rem \div 3600
        mm == (rem % 3600) \div 60
        ss == rem % 60
    IN (IF days = 0 THEN <<>>
        ELSE IntStr(days) \o <<" ", "d", "a", "y">>
               \o (IF days \in {1, -1} THEN <<>> ELSE <<"s">>) \o <<",", " ">>)
         \o IntStr(hh) \o <<":">> \o Pad2(mm) \o <<":">> \o Pad2(ss)

(* repr(range(start, stop, step)): the step is left out when it is 1 *)
ReprRange(v) ==
    <<"r", "a", "n", "g", "e", "(">> \o IntStr(v.n) \o <<",", " ">> \o IntStr(v.m)
      \o (IF v.k = 1 THEN <<>> ELSE <<",", " ">> \o IntStr(v.k)) \o <<")">>

(* f'{val}' *)
Format(v) ==
    CASE v.t = "str" -> v.s
      [] v.t = "int" -> IntStr(v.n)
      [] v.t = "none" -> <<"N", "o", "n", "e">>
      [] v.t = "timedelta" -> StrTimedelta(v.n)
      [] v.t = "range" -> ReprRange(v)
      [] v.t = "tuple" ->
           <<"(">> \o JoinInts(v.items)
             \o (IF Len(v.items) = 1 THEN <<",">> ELSE <<>>) \o <<")">>
      [] v.t = "list" -> <<"[">> \o JoinInts(v.items) \o <<"]">>

(* bool(v), as `or` tests it *)
Truthy(v) ==
    CASE v.t = "none" -> FALSE
      [] v.t = "str" -> v.s # <<>>
      [] v.t \in {"int", "timedelta"} -> v.n # 0
      [] v.t = "range" -> RangeLen(v) > 0
      [] v.t \in {"tuple", "list"} -> v.items # <<>>

(* int(x) as SlurmJob.__init__ applies it to array_num *)
ToInt(v) ==
    CASE v.t = "int" -> [ok |-> TRUE, n |-> v.n]
      [] v.t = "str" -> ParseInt(v.s)
      [] OTHER -> [ok |-> FALSE, n |-> 0]

(* ------------------------------------------------------------------ *)
(* SlurmConfig                                                         *)
(* ------------------------------------------------------------------ *)
Keys == {K_partition, K_time, K_job_name, K_array}

HasKey(args, key) == \E i \in 1..Len(args) : args[i].key = key

KeyIndex(args, key) == CHOOSE i \in 1..Len(args) : args[i].key = key

(* dict[key] = val as `del dict[key]; dict[key] = val`: the key goes last *)
DictSetMoveToEnd(args, key, val) ==
    Append(SelectSeq(args, LAMBDA kv : kv.key # key), [key |-> key, val |-> val])

(* dict[key] = val: a new key goes last, a present key keeps its place *)
DictSet(args, key, val) ==
    IF HasKey(args, key)
    THEN [args EXCEPT ![KeyIndex(args, key)] = [key |-> key, val |-> val]]
    ELSE Append(args, [key |-> key, val |-> val])

DictGet(args, key) == args[KeyIndex(args, key)].val

(* the special names an instance of SlurmConfig has, each without its two   *)
(* leading and two trailing underscores (Python 3.11): the methods and      *)
(* attributes of object and the two the class defines                       *)
SpecialNames ==
    { <<"c", "l", "a", "s", "s">>,
      <<"d", "e", "l", "a", "t", "t", "r">>,
      <<"d", "i", "c", "t">>,
      <<"d", "i", "r">>,
      <<"d", "o", "c">>,
      <<"e", "q">>,
      <<"f", "o", "r", "m", "a", "t">>,
      <<"g", "e">>,
      <<"g", "e", "t", "a", "t", "t", "r", "i", "b", "u", "t", "e">>,
      <<"g", "e", "t", "s", "t", "a", "t", "e">>,
      <<"g", "t">>,
      <<"h", "a", "s", "h">>,
      <<"i", "n", "i", "t">>,
      <<"i", "n", "i", "t", "_", "s", "u", "b", "c", "l", "a", "s", "s">>,
      <<"l", "e">>,
      <<"l", "t">>,
      <<"m", "o", "d", "u", "l", "e">>,
      <<"n", "e">>,
      <<"n", "e", "w">>,
      <<"r", "e", "d", "u", "c", "e">>,
      <<"r", "e", "d", "u", "c", "e", "_", "e", "x">>,
      <<"r", "e", "p", "r">>,
      <<"s", "e", "t", "a", "t", "t", "r">>,
      <<"s", "i", "z", "e", "o", "f">>,
      <<"s", "t", "r">>,
      <<"s", "u", "b", "c", "l", "a", "s", "s", "h", "o", "o", "k">>,
      <<"w", "e", "a", "k", "r", "e", "f">> }

(* the names a SlurmConfig already answers to besides its directives and   *)
(* its shell: its two containers, its methods and its special names         *)
Internal(key) ==
    \/ key \in {N_args, N_commands, N_add_command, N_is_array_job, N_from_yaml}
    \/ \E w \in SpecialNames : key = <<"_", "_">> \o w \o <<"_", "_">>

(* self._args[key] = val; setattr(self, key, val): the setattr gives the    *)
(* object an attribute of that name, so the key shell rebinds the shell.    *)
(* A key that names one of the internals replaces that internal; the model  *)
(* covers the other keys only.                                              *)
SetDirective(cfg, key, stored, attr) ==
    CASE ~Internal(key) ->
        [cfg EXCEPT !.args = DictSet(cfg.args, key, stored),
                    !.attrs = IF key \in Keys THEN [@ EXCEPT ![key] = attr] ELSE @,
                    !.shell = IF key = K_shell THEN attr ELSE @]

RECURSIVE InitDirectives(_, _)
InitDirectives(cfg, kwargs) ==
    IF kwargs = <<>> THEN cfg
    ELSE InitDirectives(SetDirective(cfg, Head(kwargs).key, Head(kwargs).val,
                                     Head(kwargs).val),
                        Tail(kwargs))

(* what stands for the configuration when the constructor raised *)
NoConfig ==
    [args |-> <<>>, commands |-> <<>>, shell |-> NoAttr, attrs |-> [k \in Keys |-> NoAttr]]

(* SlurmConfig(shell, **kwargs); classJobName is the class attribute        *)
(* job_name: '' once from_yaml has run, no attribute before. A keyword      *)
(* named self, or a second shell, collides with a parameter of __init__:    *)
(* TypeError before the body runs, and no object.                           *)
SlurmConfig(shell, kwargs, classJobName) ==
    IF HasKey(kwargs, N_self) \/ HasKey(kwargs, K_shell)
    THEN [err |-> "TypeError", cfg |-> NoConfig]
    ELSE [err |-> "none",
          cfg |-> InitDirectives(
                      [args |-> <<>>,
                       commands |-> <<>>,
                       shell |-> IF Truthy(shell) THEN shell ELSE StrVal(S_bin_bash),
                       attrs |-> [k \in Keys |->
                                     IF k = K_job_name THEN classJobName ELSE NoAttr]],
                      kwargs)]

(* from_yaml: the entries of the file are the arguments of the constructor, *)
(* so an entry named shell is its shell parameter and the others are its    *)
(* keyword arguments; the result is the constructor's                       *)
from_yaml(yaml_data) ==
    SlurmConfig(IF HasKey(yaml_data, K_shell) THEN DictGet(yaml_data, K_shell)
                ELSE NoneVal,
                SelectSeq(yaml_data, LAMBDA kv : kv.key # K_shell),
                StrVal(<<>>))

is_array_job(cfg) == HasKey(cfg.args, K_array)

(* the directive lines with the names as stored *)
RECURSIVE ArgLinesRaw(_)
ArgLinesRaw(args) ==
    IF args = <<>> THEN <<>>
    ELSE S_sbatch_line \o Head(args).key \o <<"=">>
           \o Format(Head(args).val) \o ArgLinesRaw(Tail(args))

RECURSIVE ArgLines(_)
ArgLines(args) ==
    IF args = <<>> THEN <<>>
    ELSE S_sbatch_line \o Replace(Head(args).key, "_", "-") \o <<"=">>
           \o Format(Head(args).val) \o ArgLines(Tail(args))

RECURSIVE CommandLines(_)
CommandLines(commands) ==
    IF commands = <<>> THEN <<>>
    ELSE <<"\n">> \o Head(commands) \o CommandLines(Tail(commands))

(* SlurmConfig.__str__ *)
ConfigStr(cfg) ==
    S_shebang \o Format(cfg.shell) \o ArgLines(cfg.args) \o CommandLines(cfg.commands)

(* ------------------------------------------------------------------ *)
(* Slurm.add_arguments / add_commands                                  *)
(* ------------------------------------------------------------------ *)
SecondsPerDay == 86400
SecondsPerHour == 3600
SecondsPerMinute == 60

(* the timedelta branch with the hours taken from the total, not from what  *)
(* the days leave over                                                      *)
FormatTimedeltaTotalHours(total_s) ==
    LET days == total_s \div SecondsPerDay
        hours == total_s \div SecondsPerHour
        rem2 == total_s % SecondsPerHour
        minutes == rem2 \div SecondsPerMinute
        seconds == rem2 % SecondsPerMinute
    IN IntStr(days) \o <<"-">> \o Pad2(hours) \o <<":">> \o Pad2(minutes)
         \o <<":">> \o Pad2(seconds)

(* the timedelta branch of add_arguments *)
FormatTimedelta(total_s) ==
    LET days == total_s \div SecondsPerDay
        rem1 == total_s % SecondsPerDay
        hours == rem1 \div SecondsPerHour
        rem2 == rem1 % SecondsPerHour
        minutes == rem2 \div SecondsPerMinute
        seconds == rem2 % SecondsPerMinute
    IN IntStr(days) \o <<"-">> \o Pad2(hours) \o <<":">> \o Pad2(minutes)
         \o <<":">> \o Pad2(seconds)

TimeValue(key, val) ==
    IF key = K_time /\ val.t = "timedelta" THEN StrVal(FormatTimedelta(val.n)) ELSE val

(* the array branch with range(0, val) for an int: the upper bound left out *)
ArrayValueIntExclusive(val) ==
    CASE val.t = "str" ->
           LET parts == Split(val.s, "-")
               ints == [i \in 1..Len(parts) |-> ParseInt(parts[i])]
           IN IF \E i \in 1..Len(ints) : ~ints[i].ok
              THEN [err |-> "ValueError", val |-> NoneVal]
              ELSE [err |-> "none",
                    val |-> RangeVal(ints[1].n, ints[Len(ints)].n + 1, 1)]
      [] val.t = "int" -> [err |-> "none", val |-> RangeVal(0, val.n, 1)]
      [] OTHER -> [err |-> "none", val |-> val]

(* the array branch with range(val[0], val[-1]) for a str: the upper bound left out *)
ArrayValueStrExclusive(val) ==
    CASE val.t = "str" ->
           LET parts == Split(val.s, "-")
               ints == [i \in 1..Len(parts) |-> ParseInt(parts[i])]
           IN IF \E i \in 1..Len(ints) : ~ints[i].ok
              THEN [err |-> "ValueError", val |-> NoneVal]
              ELSE [err |-> "none",
                    val |-> RangeVal(ints[1].n, ints[Len(ints)].n, 1)]
      [] val.t = "int" -> [err |-> "none", val |-> RangeVal(0, val.n + 1, 1)]
      [] OTHER -> [err |-> "none", val |-> val]

(* the array branch putting the bounds of a str in ascending order first *)
ArrayValueSorted(val) ==
    CASE val.t = "str" ->
           LET parts == Split(val.s, "-")
               ints == [i \in 1..Len(parts) |-> ParseInt(parts[i])]
           IN IF \E i \in 1..Len(ints) : ~ints[i].ok
              THEN [err |-> "ValueError", val |-> NoneVal]
              ELSE [err |-> "none",
                    val |-> LET lo == IF ints[1].n <= ints[Len(ints)].n THEN ints[1].n
                                   ELSE ints[Len(ints)].n
                            hi == IF ints[1].n <= ints[Len(ints)].n THEN ints[Len(ints)].n
                                   ELSE ints[1].n
                        IN RangeVal(lo, hi + 1, 1)]
      [] val.t = "int" -> [err |-> "none", val |-> RangeVal(0, val.n + 1, 1)]
      [] OTHER -> [err |-> "none", val |-> val]

(* the array branch of add_arguments up to the subscripting: the value the  *)
(* name val is bound to, or the exception raised on the way                 *)
ArrayValue(val) ==
    CASE val.t = "str" ->
           LET parts == Split(val.s, "-")
               ints == [i \in 1..Len(parts) |-> ParseInt(parts[i])]
           IN IF \E i \in 1..Len(ints) : ~ints[i].ok
              THEN [err |-> "ValueError", val |-> NoneVal]
              ELSE [err |-> "none",
                    val |-> RangeVal(ints[1].n, ints[Len(ints)].n + 1, 1)]
      [] val.t = "int" -> [err |-> "none", val |-> RangeVal(0, val.n + 1, 1)]
      [] OTHER -> [err |-> "none", val |-> val]

(* val[0] and val[-1] *)
Subscriptable(v) == v.t \in {"range", "tuple", "list"}

SeqLen(v) == IF v.t = "range" THEN RangeLen(v) ELSE Len(v.items)

First(v) == IF v.t = "range" THEN v.n ELSE v.items[1]

Last(v) == IF v.t = "range" THEN v.n + (RangeLen(v) - 1) * v.k
           ELSE v.items[Len(v.items)]

(* one iteration of the loop of add_arguments: the configuration after it   *)
(* and the exception it raised ("none" when it completed)                   *)
AddArgument(cfg, key, val0) ==
    LET val == TimeValue(key, val0)
    IN IF key = K_array
       THEN LET a == ArrayValue(val)
            IN IF a.err # "none" THEN [cfg |-> cfg, err |-> a.err]
               ELSE IF ~Subscriptable(a.val) THEN [cfg |-> cfg, err |-> "TypeError"]
               ELSE IF SeqLen(a.val) = 0 THEN [cfg |-> cfg, err |-> "IndexError"]
               ELSE [cfg |-> SetDirective(cfg, key,
                                StrVal(IntStr(First(a.val)) \o <<"-">>
                                         \o IntStr(Last(a.val))),
                                a.val),
                     err |-> "none"]
       ELSE [cfg |-> SetDirective(cfg, key, val, val), err |-> "none"]

(* the loop of add_arguments: the keyword pairs in order; an exception ends *)
(* the call and leaves the earlier pairs applied                            *)
RECURSIVE AddArgumentsLoop(_, _)
AddArgumentsLoop(cfg, kwargs) ==
    IF kwargs = <<>> THEN [cfg |-> cfg, err |-> "none"]
    ELSE LET r == AddArgument(cfg, Head(kwargs).key, Head(kwargs).val)
         IN IF r.err # "none" THEN r ELSE AddArgumentsLoop(r.cfg, Tail(kwargs))

(* add_arguments(self, **kwargs): a keyword named self collides with the    *)
(* method's own first parameter, TypeError before the body runs             *)
add_arguments(cfg, kwargs) ==
    IF HasKey(kwargs, N_self) THEN [cfg |-> cfg, err |-> "TypeError"]
    ELSE AddArgumentsLoop(cfg, kwargs)

\* add_commands: appends its arguments in call order
add_commands(cfg, cmds) == [cfg EXCEPT !.commands = cfg.commands \o cmds]

(* get_arguments() *)
get_arguments(cfg) == cfg.args

(* a returned container: the dict of directives or a list of commands *)
DictObj(args) == [t |-> "dict", items |-> args]

ListObj(items) == [t |-> "list", items |-> items]

NoObj == [t |-> "none", items |-> <<>>]

(* get_commands(): line 204 returns self.config._args *)
get_commands(cfg) == DictObj(cfg.args)

(* ------------------------------------------------------------------ *)
(* The process boundary: a finished command is [rc, out]               *)
(* ------------------------------------------------------------------ *)
Proc(rc, out) == [rc |-> rc, out |-> out]

(* subprocess.run(..., check=True) raises CalledProcessError on a non-zero  *)
(* exit status: at the sbatch, scontrol, squeue and scancel call sites      *)
SubmitRaisesNever(p) == FALSE

SubmitRaises(p) == p.rc # 0

\* the scontrol call made without check=True: its exit status is ignored
InspectRaisesNever(p) == FALSE

InspectRaises(p) == p.rc # 0

StatusRaises(p) == p.rc # 0

CancelRaises(p) == p.rc # 0

(* re.search(r"Submitted batch job (\d+)", stdout): the leftmost place     *)
(* where the prefix is followed by a digit, and the longest run of digits   *)
(* from there                                                               *)
MatchesAt(s, i) ==
    /\ i + Len(S_submitted) <= Len(s)
    /\ SubSeq(s, i, i + Len(S_submitted) - 1) = S_submitted
    /\ IsDigit(s[i + Len(S_submitted)])

SearchJobId(s) ==
    IF \E i \in 1..Len(s) : MatchesAt(s, i)
    THEN LET i == CHOOSE j \in 1..Len(s) :
                      MatchesAt(s, j) /\ \A h \in 1..(j - 1) : ~MatchesAt(s, h)
             a == i + Len(S_submitted)
             b == CHOOSE j \in a..Len(s) :
                      /\ \A h \in a..j : IsDigit(s[h])
                      /\ (j = Len(s) \/ ~IsDigit(s[j + 1]))
         IN [found |-> TRUE, group |-> SubSeq(s, a, b)]
    ELSE [found |-> FALSE, group |-> <<>>]

(* ------------------------------------------------------------------ *)
(* SlurmJob construction                                               *)
(* ------------------------------------------------------------------ *)
(* the loop of _get_scontrol_attrs over stdout.split(' ') *)
RECURSIVE ParseAttrs(_, _)
ParseAttrs(tokens, details) ==
    IF tokens = <<>> THEN [err |-> "none", details |-> details]
    ELSE LET attr == Strip(Head(tokens))
         IN IF attr = <<>> THEN ParseAttrs(Tail(tokens), details)
            ELSE LET kv == Split1(attr, "=")
                 IN IF Len(kv) < 2 THEN [err |-> "ValueError", details |-> <<>>]
                    ELSE ParseAttrs(Tail(tokens),
                                    DictSet(details, kv[1], StrVal(kv[2])))

(* _get_scontrol_attrs on the result p of `scontrol show job <id>`;        *)
(* check=True turns a non-zero exit into CalledProcessError                *)
get_scontrol_attrs(p) ==
    IF InspectRaises(p) THEN [err |-> "CalledProcessError", details |-> <<>>]
    ELSE ParseAttrs(Split(p.out, " "), <<>>)

(* SlurmJob(job_id, slurm, array_num): array_num has no default, so a call  *)
(* without it (given = FALSE) is a TypeError before the body runs.          *)
(* Line 328 copies the attributes of the manager sl over the handle's own:  *)
(* a job_id the manager holds replaces the one passed in.                   *)
(* inspected tells whether the scontrol query was issued.                   *)
SlurmJobInit(job_id0, sl, cfg, given, array_num, p) ==
    LET n == ToInt(array_num)
        job_id == IF "job_id" \in sl.set THEN sl.job_id ELSE job_id0
        none == [job_id |-> <<>>, array_num |-> NoneVal, array_job_id |-> <<>>,
                 submission_details |-> <<>>]
    IN IF ~given THEN [err |-> "TypeError", job |-> none, inspected |-> FALSE]
       ELSE IF ~n.ok
       THEN [err |-> IF array_num.t = "str" THEN "ValueError" ELSE "TypeError",
             job |-> none, inspected |-> FALSE]
       ELSE LET d == get_scontrol_attrs(p)
            IN IF d.err # "none"
               THEN [err |-> d.err, job |-> none, inspected |-> TRUE]
               ELSE [err |-> "none",
                     job |-> [job_id |-> job_id,
                              array_num |-> IntVal(n.n),
                              array_job_id |->
                                  IF is_array_job(cfg)
                                  THEN job_id \o <<"_">> \o IntStr(n.n)
                                  ELSE <<>>,
                              submission_details |-> d.details],
                     inspected |-> TRUE]

(* the i-th scontrol result of a call; the last one repeats *)
InspectAt(insp, i) == insp[IF i <= Len(insp) THEN i ELSE Len(insp)]

(* [SlurmJob(job_id, self, array_num = i) for i in self.config.array]:     *)
(* the handles built so far, or the exception that ended the comprehension *)
RECURSIVE ArrayJobs(_, _, _, _, _, _, _)
ArrayJobs(job_id, sl, cfg, items, insp, acc, inspects) ==
    IF items = <<>> THEN [err |-> "none", jobs |-> acc, inspects |-> inspects]
    ELSE LET r == SlurmJobInit(job_id, sl, cfg, TRUE, Head(items),
                               InspectAt(insp, inspects + 1))
             cnt == IF r.inspected THEN inspects + 1 ELSE inspects
         IN IF r.err # "none" THEN [err |-> r.err, jobs |-> <<>>, inspects |-> cnt]
            ELSE ArrayJobs(job_id, sl, cfg, Tail(items), insp, Append(acc, r.job), cnt)

(* lines 294-299 of sbatch, after a match *)
MakeJobs(job_id, sl, cfg, insp) ==
    IF is_array_job(cfg)
    THEN IF cfg.attrs[K_array] = NoAttr
         THEN [err |-> "AttributeError", jobs |-> <<>>, inspects |-> 0]
         ELSE IF ~IsIterable(cfg.attrs[K_array])
         THEN [err |-> "TypeError", jobs |-> <<>>, inspects |-> 0]
         ELSE ArrayJobs(job_id, sl, cfg, Items(cfg.attrs[K_array]), insp, <<>>, 0)
    ELSE LET r == SlurmJobInit(job_id, sl, cfg, FALSE, NoneVal, InspectAt(insp, 1))
         IN [err |-> r.err,
             jobs |-> IF r.err = "none" THEN <<r.job>> ELSE <<>>,
             inspects |-> IF r.inspected THEN 1 ELSE 0]

(* ------------------------------------------------------------------ *)
(* Slurm.sbatch                                                        *)
(* ------------------------------------------------------------------ *)
(* _write_submission_script: the text written is self.config.__str__() *)
write_submission_script(cfg) == ConfigStr(cfg)

(* output_path.mkdir(exist_ok=True), line 280: mkdir is the exception the  *)
(* file system answers with for the directory the caller named, "none"     *)
(* when it creates it or finds it. With no output_path the directory is    *)
(* the one that holds the module (line 277), which exists: nothing raised. *)
MkdirRaises(output_path, mkdir) == output_path # NoneVal /\ mkdir # "none"

(* Path(__file__).parent.resolve(), line 277: the directory that holds the *)
(* module, an absolute path; the module is taken not to lie in the root    *)
(* directory, so the path has a last component                             *)
ModuleDir == <<"/", "s", "r", "c">>

(* the components pathlib keeps of a path text: what lies between the      *)
(* slashes, without the empty ones and the single dots                     *)
PathParts(text) == SelectSeq(Split(text, "/"), LAMBDA c : c # <<>> /\ c # <<".">>)

(* output_path / f'{self.config.job_name}', lines 283 and 284: a name      *)
(* that begins with a slash replaces the directory                         *)
JoinPath(dir, name) ==
    IF name # <<>> /\ name[1] = "/" THEN PathParts(name)
    ELSE PathParts(dir) \o PathParts(name)

(* path.with_suffix(suffix), lines 244 and 226: ValueError when the path   *)
(* has an empty name, that is no component at all (the root, or ".")       *)
WithSuffixRaises(output_path, job_name) ==
    JoinPath(IF output_path = NoneVal THEN ModuleDir ELSE output_path.s,
             Format(job_name)) = <<>>

(* open() of the two files named after the job (lines 246 and 228): fs is   *)
(* the exception the file system answers with, "none" when it opens them   *)
OpenRaises(fs) == fs # "none"

(* sbatch(shell, output_path): sl is the manager's own attributes, mkdir   *)
(* and fs what the file system answers when the directory is made and when *)
(* the files are opened, sub the result of the sbatch command, insp the    *)
(* results of the scontrol calls in order. save_configuration decides only *)
(* whether the pickle is written next to the script; job_name is read and  *)
(* a file opened either way (lines 283 and 284).                           *)
(* The outcome: the manager after the call, the value returned or the      *)
(* exception raised, the script written and the commands that were run.    *)
(* The local name shell (line 275) is assigned and never read again.       *)
(* Path(output_path) at line 279 takes None or a str: TypeError for any    *)
(* other value.                                                            *)
(* Line 280 makes the directory before line 283 reads config.job_name:     *)
(* AttributeError when the configuration has no such attribute; one        *)
(* holding None names the files None. The path of the files is built       *)
(* before either is opened.                                                *)
sbatch(cfg, sl, shellArg, output_path, mkdir, fs, sub, insp) ==
    LET shell == IF Truthy(shellArg) THEN shellArg ELSE cfg.shell
        base == [slurm |-> sl, ret |-> <<>>, err |-> "none", wrote |-> FALSE,
                 script |-> <<>>, submits |-> 0, inspects |-> 0]
    IN IF output_path.t \notin {"none", "str"}
       THEN [base EXCEPT !.err = "TypeError"]
       ELSE IF MkdirRaises(output_path, mkdir)
       THEN [base EXCEPT !.err = mkdir]
       ELSE IF cfg.attrs[K_job_name] = NoAttr
       THEN [base EXCEPT !.err = "AttributeError"]
       ELSE IF WithSuffixRaises(output_path, cfg.attrs[K_job_name])
       THEN [base EXCEPT !.err = "ValueError"]
       ELSE IF OpenRaises(fs)
       THEN [base EXCEPT !.err = fs]
       ELSE LET written == [base EXCEPT !.wrote = TRUE,
                                        !.script = write_submission_script(cfg),
                                        !.submits = 1]
            IN IF SubmitRaises(sub)
               THEN [written EXCEPT !.err = "CalledProcessError"]
               ELSE LET match == SearchJobId(sub.out)
                        sl1 == [sl EXCEPT !.stdout = sub.out, !.jobs = <<>>,
                                          !.set = @ \cup {"stdout", "jobs"}]
                    IN IF ~match.found
                       THEN [written EXCEPT !.slurm = sl1, !.ret = <<>>]
                       ELSE LET sl2 == [sl1 EXCEPT !.job_id = match.group,
                                                   !.set = @ \cup {"job_id"}]
                                made == MakeJobs(match.group, sl2, cfg, insp)
                            IN IF made.err # "none"
                               THEN [written EXCEPT !.slurm = sl2,
                                                    !.err = made.err,
                                                    !.inspects = made.inspects]
                               ELSE [written EXCEPT
                                        !.slurm = [sl2 EXCEPT !.jobs = made.jobs],
                                        !.ret = made.jobs,
                                        !.inspects = made.inspects]

(* ------------------------------------------------------------------ *)
(* SlurmJob: status, waiting, cancelling                               *)
(* ------------------------------------------------------------------ *)
Argv(cmd, id) == [cmd |-> cmd, id |-> id]

(* get_status returning the raw stdout *)
get_status_raw(p) ==
    IF StatusRaises(p) THEN S_NOT_FOUND
    ELSE IF p.out # <<>> THEN p.out
    ELSE S_NOT_FOUND

(* get_status on the result p of `squeue -j <id> -h -o %T`: a non-zero     *)
(* exit is the CalledProcessError the method catches                       *)
get_status(p) ==
    IF StatusRaises(p) THEN S_NOT_FOUND
    ELSE IF p.out # <<>> THEN Strip(p.out)
    ELSE S_NOT_FOUND

(* is_queued looking for RUNNING alone *)
is_queued_running(p) == get_status(p) = S_RUNNING

(* is_queued taking every answer but the sentinel for a queued job *)
is_queued_listed(p) == p.rc = 0 /\ p.out # <<>>

(* is_queued: one get_status call, compared with ('PENDING', 'RUNNING') *)
is_queued(p) == get_status(p) \in {S_PENDING, S_RUNNING}

(* line 415 with the call it leaves out: bool(self.is_queued()) *)
IsQueuedCalled(sq) == is_queued(sq)

(* bool(self.is_queued): line 415 names the bound method and does not call *)
(* it, and a bound method is always true                                   *)
IsQueuedAttrTruth(sq) == TRUE

(* cancel: sq is what squeue would answer now, p the result of scancel *)
cancel(h, sq, p) ==
    IF ~IsQueuedAttrTruth(sq)
    THEN [ret |-> FALSE, ran |-> FALSE, argv |-> Argv("", <<>>)]
    ELSE [ret |-> ~CancelRaises(p), ran |-> TRUE,
          argv |-> Argv("scancel", h.job_id)]

(* ------------------------------------------------------------------ *)
(* State                                                               *)
(* ------------------------------------------------------------------ *)
VARIABLES
    config,   \* the SlurmConfig the manager owns
    slurm,    \* the manager's own attributes: stdout, job_id, jobs
    call,     \* the last call on the manager: its inputs and its outcome
    job,      \* the SlurmJob the calling thread works on
    sched,    \* what `squeue -j <id> -h -o %T` answers at this moment
    pc,       \* where the calling thread is in hold_for_completion
    obs       \* the last call on the handle: its inputs and its outcome

vars == <<config, slurm, call, job, sched, pc, obs>>
managerVars == <<config, slurm, call>>
handleVars == <<job, sched, pc, obs>>

(* ------------------------------------------------------------------ *)
(* Inputs                                                              *)
(* ------------------------------------------------------------------ *)
KV(key, val) == [key |-> key, val |-> val]

V_gpu == StrVal(<<"g", "p", "u">>)
V_cpu == StrVal(<<"c", "p", "u">>)
V_test == StrVal(<<"t", "e", "s", "t">>)
V_1_00 == StrVal(<<"1", ":", "0", "0">>)
C_sleep == <<"s", "l", "e", "e", "p", " ", "1", "0">>
C_echo == <<"e", "c", "h", "o", " ", "H", "I", "I", "I">>

(* the configurations a manager starts on; the last attempt raises and     *)
(* gives none                                                               *)
InitConfigs ==
    { r.cfg : r \in { c \in { from_yaml(<<>>),
                               SlurmConfig(StrVal(S_bin_zsh), <<KV(K_job_name, V_test)>>,
                                           NoAttr),
                               SlurmConfig(NoneVal, <<>>, NoAttr),
                               SlurmConfig(NoneVal, <<KV(K_job_name, NoneVal)>>, NoAttr),
                               SlurmConfig(NoneVal, <<KV(N_self, V_gpu)>>, NoAttr) } :
                         c.err = "none" } }

ArrayInputs ==
    { IntVal(3),
      StrVal(<<"1", "-", "2">>),
      StrVal(<<"3", "-", "1">>),
      TupleVal(<<0, 2>>),
      RangeVal(0, 5, 2) }

(* keyword arguments of one add_arguments call, as the pairs in order *)
ArgInputs ==
    { <<KV(K_partition, V_gpu)>>, <<KV(K_partition, V_cpu)>>,
      <<KV(K_time, V_1_00)>>, <<KV(K_time, TimedeltaVal(90061))>>,
      <<KV(K_job_name, V_test)>>,
      <<KV(K_array, IntVal(3))>>,
      <<KV(K_partition, V_cpu), KV(K_array, StrVal(<<"3", "-", "1">>))>>,
      <<KV(K_partition, V_gpu), KV(N_self, V_cpu)>> }

SubmitArgInputs ==
    { <<KV(K_job_name, V_test)>> } \cup { <<KV(K_array, v)>> : v \in ArrayInputs }

Commands == {C_sleep, C_echo}

CmdInputs == { <<c>> : c \in Commands } \cup { <<c, d>> : c \in Commands, d \in Commands }

SubmitCmdInputs == { <<C_sleep>>, <<C_sleep, C_echo>> }

O_4821 == S_submitted \o <<"4", "8", "2", "1", "\n">>
O_7 == <<"o", "k", " ">> \o S_submitted \o <<"7", " ", "9">>
O_nomatch == S_submitted \o <<"\n">>
I_ok == <<"J", "o", "b", "I", "d", "=", "7", " ", "\n", " ", "Q", "=", "a", "=", "b", "\n">>
I_bad == <<"J", "o", "b", "I", "d", " ", "7">>

(* what the file system, the sbatch command and the scontrol calls answer  *)
(* during one sbatch                                                        *)
Boundaries ==
    { [mkdir |-> "none", fs |-> "none", sub |-> Proc(1, <<>>), insp |-> <<Proc(0, I_ok)>>],
      [mkdir |-> "none", fs |-> "none", sub |-> Proc(0, O_nomatch), insp |-> <<Proc(0, I_ok)>>],
      [mkdir |-> "none", fs |-> "none", sub |-> Proc(0, O_4821), insp |-> <<Proc(0, I_ok)>>],
      [mkdir |-> "none", fs |-> "none", sub |-> Proc(0, O_7), insp |-> <<Proc(0, I_ok)>>],
      [mkdir |-> "none", fs |-> "none", sub |-> Proc(0, O_4821), insp |-> <<Proc(1, <<>>)>>],
      [mkdir |-> "none", fs |-> "none", sub |-> Proc(0, O_4821),
       insp |-> <<Proc(0, I_ok), Proc(1, <<>>)>>],
      [mkdir |-> "none", fs |-> "none", sub |-> Proc(0, O_4821), insp |-> <<Proc(0, I_bad)>>],
      [mkdir |-> "none", fs |-> "FileNotFoundError", sub |-> Proc(0, O_4821),
       insp |-> <<Proc(0, I_ok)>>],
      [mkdir |-> "FileExistsError", fs |-> "none", sub |-> Proc(0, O_4821),
       insp |-> <<Proc(0, I_ok)>>] }

ShellArgs == {NoneVal, StrVal(S_bin_zsh)}

P_out == <<"o", "u", "t">>
P_dot == <<".">>

(* the arguments of one sbatch call: a shell, or a directory for the       *)
(* files, the current one included                                         *)
SbatchInputs ==
    { [shell |-> sh, output_path |-> NoneVal] : sh \in ShellArgs }
      \cup { [shell |-> NoneVal, output_path |-> StrVal(d)] : d \in {P_out, P_dot} }

(* ------------------------------------------------------------------ *)
(* The manager                                                         *)
(* ------------------------------------------------------------------ *)
NoSlurm == [stdout |-> <<>>, job_id |-> <<>>, jobs |-> <<>>, set |-> {}]

NoCall ==
    [op |-> "init", err |-> "none", kwargs |-> <<>>, cmds |-> <<>>,
     shell |-> NoneVal, output_path |-> NoneVal, mkdir |-> "none", fs |-> "none",
     sub |-> Proc(0, <<>>), insp |-> <<>>,
     ret |-> <<>>,
     wrote |-> FALSE, script |-> <<>>, submits |-> 0, inspects |-> 0,
     value |-> NoObj]

NoJob ==
    [job_id |-> <<>>, array_num |-> NoneVal, array_job_id |-> <<>>,
     submission_details |-> <<>>]

NoObs ==
    [op |-> "init", err |-> "none", status |-> <<>>, queued |-> FALSE,
     ret |-> FALSE, ran |-> FALSE, argv |-> Argv("", <<>>), queries |-> 0,
     polls |-> 0, reply |-> Proc(0, <<>>)]

HandleIdle ==
    /\ job = NoJob
    /\ sched = Proc(0, <<>>)
    /\ pc = "idle"
    /\ obs = NoObs

Init ==
    /\ config \in InitConfigs
    /\ slurm = NoSlurm
    /\ call = NoCall
    /\ HandleIdle

AddArguments(inputs) ==
    \E kwargs \in inputs :
        \E r \in {add_arguments(config, kwargs)} :
           /\ config' = r.cfg
           /\ call' = [NoCall EXCEPT !.op = "add_arguments", !.kwargs = kwargs,
                                     !.err = r.err]
           /\ UNCHANGED <<slurm, handleVars>>

AddCommands(inputs) ==
    \E cmds \in inputs :
        /\ Len(config.commands) + Len(cmds) <= MaxCmds
        /\ config' = add_commands(config, cmds)
        /\ call' = [NoCall EXCEPT !.op = "add_commands", !.cmds = cmds]
        /\ UNCHANGED <<slurm, handleVars>>

SbatchCall(a, b, r) ==
    [NoCall EXCEPT !.op = "sbatch", !.shell = a.shell, !.output_path = a.output_path,
                   !.mkdir = b.mkdir, !.fs = b.fs, !.sub = b.sub,
                   !.insp = b.insp, !.err = r.err, !.ret = r.ret,
                   !.wrote = r.wrote, !.script = r.script,
                   !.submits = r.submits, !.inspects = r.inspects]

(* one sbatch call; a refusal of mkdir is drawn only for a call that names *)
(* a directory, the only one it can answer, and such a call is drawn       *)
(* against a scheduler that acknowledges                                   *)
Sbatch ==
    \E b \in Boundaries, a \in SbatchInputs :
        /\ a.output_path = NoneVal => b.mkdir = "none"
        /\ a.output_path # NoneVal
             => (b.fs = "none" /\ b.sub = Proc(0, O_4821) /\ b.insp = <<Proc(0, I_ok)>>)
        /\ \E r \in {sbatch(config, slurm, a.shell, a.output_path, b.mkdir, b.fs,
                              b.sub, b.insp)} :
              /\ slurm' = r.slurm
              /\ call' = SbatchCall(a, b, r)
              /\ UNCHANGED <<config, handleVars>>

(* SlurmConfig.from_yaml is called somewhere in the program, as Slurm()     *)
(* with no configuration does: line 99 sets job_name = '' on the class, so  *)
(* a configuration with no job_name of its own now answers ''; one with a   *)
(* job_name of its own, None included, keeps it. The object the call        *)
(* builds belongs to another manager.                                       *)
FromYaml ==
    /\ config' = [config EXCEPT !.attrs[K_job_name] =
                                   IF @ = NoAttr THEN StrVal(<<>>) ELSE @]
    /\ call' = [NoCall EXCEPT !.op = "from_yaml"]
    /\ UNCHANGED <<slurm, handleVars>>

GetCommands ==
    /\ call' = [NoCall EXCEPT !.op = "get_commands", !.value = get_commands(config)]
    /\ UNCHANGED <<config, slurm, handleVars>>

Next ==
    \/ AddArguments(SubmitArgInputs)
    \/ AddCommands(SubmitCmdInputs)
    \/ Sbatch
    \/ FromYaml

Spec == Init /\ [][Next]_vars

(* the configuration alone, over more directives and commands *)
ConfigNext ==
    \/ AddArguments(ArgInputs)
    \/ AddCommands(CmdInputs)
    \/ GetCommands
    \/ FromYaml

ConfigSpec == Init /\ [][ConfigNext]_vars

(* ------------------------------------------------------------------ *)
(* A manager whose configuration got its array directive at             *)
(* construction: SlurmConfig(array=...) or a yaml file with an array    *)
(* entry                                                                *)
(* ------------------------------------------------------------------ *)
V_0_3 == StrVal(<<"0", "-", "3">>)

ArrayInitConfigs ==
    { from_yaml(<<KV(K_array, V_0_3)>>).cfg,
      from_yaml(<<KV(K_array, IntVal(3))>>).cfg,
      SlurmConfig(NoneVal, <<KV(K_job_name, V_test), KV(K_array, V_0_3)>>, NoAttr).cfg }

ArrayInit ==
    /\ config \in ArrayInitConfigs
    /\ slurm = NoSlurm
    /\ call = NoCall
    /\ HandleIdle

ArrayInitNext ==
    \/ AddArguments({<<KV(K_job_name, V_test)>>, <<KV(K_partition, V_gpu)>>})
    \/ AddCommands(SubmitCmdInputs)
    \/ Sbatch
    \/ FromYaml

ArrayInitSpec == ArrayInit /\ [][ArrayInitNext]_vars

(* ------------------------------------------------------------------ *)
(* One add_arguments call on a fresh manager, over many values         *)
(* ------------------------------------------------------------------ *)
RangeString(a, b) == StrVal(IntStr(a) \o <<"-">> \o IntStr(b))

V_x == StrVal(<<"x">>)
V_0_10_2 == StrVal(<<"0", "-", "1", "0", ":", "2">>)
V_1_0 == StrVal(<<"1", "_", "0">>)

(* values of the array keyword: int, "a-b" in both orders, a string with no *)
(* hyphen, strings int() rejects, tuples, a list, ranges with and without a *)
(* step                                                                     *)
ArrayValues ==
    { IntVal(n) : n \in 0..MaxIndex }
      \cup { RangeString(a, b) : a \in 0..MaxIndex, b \in 0..MaxIndex }
      \cup { StrVal(IntStr(n)) : n \in 0..MaxIndex }
      \cup { V_x, V_0_10_2, V_1_0, NoneVal, RangeVal(5, 0, -1),
             TupleVal(<<0, 2>>), TupleVal(<<1, 2, 3>>), TupleVal(<<3, 1>>),
             ListVal(<<0, 2>>), RangeVal(1, 4, 1), RangeVal(0, 5, 2), RangeVal(2, 2, 1) }

(* whole seconds around every carry of the D-HH:MM:SS form *)
Durations ==
    { d * SecondsPerDay + h * SecondsPerHour + m * SecondsPerMinute + sec :
        d \in 0..MaxDays, h \in {0, 9, 10, 23}, m \in {0, 9, 59}, sec \in {0, 1, 59} }

TimeValues ==
    { TimedeltaVal(n) : n \in Durations } \cup { V_1_00, IntVal(30), StrVal(<<>>) }

NormalizeInputs ==
    { <<KV(K_array, v)>> : v \in ArrayValues } \cup { <<KV(K_time, v)>> : v \in TimeValues }

(* a manager on the loaded defaults, and the keyword the caller is about to *)
(* pass to add_arguments                                                    *)
NormalizeInit ==
    /\ config = from_yaml(<<>>).cfg
    /\ slurm = NoSlurm
    /\ \E kwargs \in NormalizeInputs :
          call = [NoCall EXCEPT !.op = "call add_arguments", !.kwargs = kwargs]
    /\ HandleIdle

Normalize ==
    /\ call.op = "call add_arguments"
    /\ AddArguments({call.kwargs})

NormalizeNext == Normalize

NormalizeSpec == NormalizeInit /\ [][NormalizeNext]_vars

(* ------------------------------------------------------------------ *)
(* The handles of one submitted array job                              *)
(* ------------------------------------------------------------------ *)
NL == <<"\n">>

(* answers of squeue: one state per line, one line per task still listed *)
SqueueReplies ==
    { Proc(0, S_PENDING \o NL), Proc(0, S_RUNNING \o NL),
      Proc(0, S_COMPLETING \o NL), Proc(0, <<>>), Proc(0, NL),
      Proc(1, <<>>), Proc(1, S_RUNNING \o NL),
      Proc(0, S_PENDING \o NL \o S_RUNNING \o NL) }

ExitCodes == {0, 1}

SubmittedBoundary ==
    [mkdir |-> "none", fs |-> "none", sub |-> Proc(0, O_4821), insp |-> <<Proc(0, I_ok)>>]

(* the state after add_arguments(array="1-2") and a successful sbatch *)
JobInit ==
    /\ \E a \in {add_arguments(from_yaml(<<>>).cfg,
                               <<KV(K_array, StrVal(<<"1", "-", "2">>))>>)} :
         \E r \in {sbatch(a.cfg, NoSlurm, NoneVal, NoneVal, SubmittedBoundary.mkdir,
                          SubmittedBoundary.fs, SubmittedBoundary.sub,
                          SubmittedBoundary.insp)} :
            /\ config = a.cfg
            /\ slurm = r.slurm
            /\ call = SbatchCall([shell |-> NoneVal, output_path |-> NoneVal],
                                 SubmittedBoundary, r)
    /\ job = NoJob
    /\ sched \in SqueueReplies
    /\ pc = "idle"
    /\ obs = NoObs

Handles == { slurm.jobs[i] : i \in 1..Len(slurm.jobs) }

(* the scheduler moves the job on, or squeue starts or stops failing *)
SchedulerStep ==
    /\ sched' \in SqueueReplies \ {sched}
    /\ UNCHANGED <<managerVars, job, pc, obs>>

GetStatus ==
    /\ pc \in {"idle", "done"}
    /\ \E h \in Handles :
         /\ job' = h
         /\ obs' = [NoObs EXCEPT !.op = "get_status", !.reply = sched,
                                 !.argv = Argv("squeue", h.job_id),
                                 !.queries = 1,
                                 !.status = get_status(sched)]
    /\ UNCHANGED <<managerVars, sched, pc>>

IsQueued ==
    /\ pc \in {"idle", "done"}
    /\ \E h \in Handles :
         /\ job' = h
         /\ obs' = [NoObs EXCEPT !.op = "is_queued", !.reply = sched,
                                 !.argv = Argv("squeue", h.job_id),
                                 !.queries = 1,
                                 !.status = get_status(sched),
                                 !.queued = is_queued(sched)]
    /\ UNCHANGED <<managerVars, sched, pc>>

Cancel ==
    /\ pc \in {"idle", "done"}
    /\ \E h \in Handles, rc \in ExitCodes :
         \E r \in {cancel(h, sched, Proc(rc, <<>>))} :
            /\ job' = h
            /\ obs' = [NoObs EXCEPT !.op = "cancel", !.reply = Proc(rc, <<>>),
                                    !.argv = r.argv, !.ran = r.ran, !.ret = r.ret]
    /\ UNCHANGED <<managerVars, sched, pc>>

(* hold_for_completion is entered: `while True:` *)
HoldStart ==
    /\ pc \in {"idle", "done"}
    /\ \E h \in Handles : job' = h
    /\ pc' = "check"
    /\ obs' = [NoObs EXCEPT !.op = "hold_for_completion"]
    /\ UNCHANGED <<managerVars, sched>>

(* `if self.is_queued():` then either the sleep or the break; queries      *)
(* counts the squeue calls of this iteration, polls those of the whole      *)
(* call (up to MaxPolls, where the count stays)                             *)
HoldCheck ==
    /\ pc = "check"
    /\ obs' = [obs EXCEPT !.reply = sched,
                          !.argv = Argv("squeue", job.job_id),
                          !.queries = @ + 1,
                          !.polls = IF @ < MaxPolls THEN @ + 1 ELSE @,
                          !.status = get_status(sched),
                          !.queued = is_queued(sched)]
    /\ pc' = IF is_queued(sched) THEN "sleep" ELSE "done"
    /\ UNCHANGED <<managerVars, job, sched>>

(* `time.sleep(interval); continue`: the next iteration starts *)
HoldSleep ==
    /\ pc = "sleep"
    /\ pc' = "check"
    /\ obs' = [obs EXCEPT !.queries = 0]
    /\ UNCHANGED <<managerVars, job, sched>>

JobNext ==
    \/ SchedulerStep
    \/ GetStatus
    \/ IsQueued
    \/ Cancel
    \/ HoldStart
    \/ HoldCheck
    \/ HoldSleep

JobSpec == JobInit /\ [][JobNext]_vars

(* the calling thread keeps running: a poll that is due is made, a sleep   *)
(* that is due ends; the scheduler owes nothing                            *)
FairJobSpec == JobSpec /\ WF_vars(HoldCheck) /\ WF_vars(HoldSleep)

(* ------------------------------------------------------------------ *)
(* Submission: claims C1 to C4                                         *)
(* ------------------------------------------------------------------ *)
(* the identifier each acknowledging answer of Boundaries carries *)
AckId(out) ==
    CASE out = O_4821 -> <<"4", "8", "2", "1">>
      [] out = O_7 -> <<"7">>
      [] OTHER -> <<>>

HasAck(out) == out \in {O_4821, O_7}

InspectionSucceeds == call.insp = <<Proc(0, I_ok)>>

Submitted == call.op = "sbatch" /\ call.submits = 1

(* C1: a non-array configuration, a submit command that exits 0 and        *)
(* acknowledges <id>, a succeeding inspection: sbatch returns exactly one   *)
(* handle, with job identifier <id> and no array index.                     *)
C1_NonArrayOneHandle ==
    (Submitted /\ ~is_array_job(config) /\ call.sub.rc = 0 /\ HasAck(call.sub.out)
       /\ InspectionSucceeds)
    => /\ call.err = "none"
       /\ Len(call.ret) = 1
       /\ call.ret[1].job_id = AckId(call.sub.out)
       /\ call.ret[1].array_num = NoneVal

(* the bounds "low-high" the array directive renders *)
RenderedBounds ==
    { b \in (0..9) \X (0..9) :
        DictGet(config.args, K_array) = StrVal(IntStr(b[1]) \o <<"-">> \o IntStr(b[2])) }

(* C2: with an array directive set through add_arguments and rendered as    *)
(* "low-high", a successful submit returns high-low+1 handles, one for each *)
(* integer of [low, high] in ascending order, all with the job identifier   *)
(* of the submit output.                                                    *)
C2_ArrayFanOut ==
    (Submitted /\ is_array_job(config) /\ call.err = "none" /\ HasAck(call.sub.out))
    => \E b \in RenderedBounds :
          /\ Len(call.ret) = b[2] - b[1] + 1
          /\ \A i \in 1..Len(call.ret) :
                /\ call.ret[i].array_num = IntVal(b[1] + i - 1)
                /\ call.ret[i].job_id = AckId(call.sub.out)

(* C3: a submit command that exits non-zero makes sbatch raise (the         *)
(* CalledProcessError of check=True); nothing is returned, no handle is     *)
(* constructed and no inspection query is issued.                           *)
C3_SubmitFailureRaises ==
    (Submitted /\ call.sub.rc # 0)
    => /\ call.err = "CalledProcessError"
       /\ call.ret = <<>>
       /\ call.inspects = 0

C3_Witness ==
    /\ Submitted
    /\ call.sub.rc # 0
    /\ call.err = "CalledProcessError"
    /\ call.wrote

(* C4: when the submit command exits 0 and its output holds no             *)
(* acknowledgment "Submitted batch job <digits>", sbatch raises instead of  *)
(* returning normally.                                                      *)
C4_NoAckRaises ==
    (Submitted /\ call.sub.rc = 0 /\ ~HasAck(call.sub.out)) => call.err # "none"


(* ------------------------------------------------------------------ *)
(* Job handles: claims C5 to C8                                        *)
(* ------------------------------------------------------------------ *)
(* s is t with whitespace, and nothing else, before and after it *)
Surrounds(s, t) ==
    \E a \in 0..Len(s) :
       /\ a + Len(t) <= Len(s)
       /\ \A i \in 1..Len(t) : s[a + i] = t[i]
       /\ \A i \in 1..a : IsSpace(s[i])
       /\ \A i \in (a + Len(t) + 1)..Len(s) : IsSpace(s[i])

Trimmed(t) == t = <<>> \/ (~IsSpace(t[1]) /\ ~IsSpace(t[Len(t)]))

(* the query found nothing: it failed, or it printed nothing *)
NotFound(p) == p.rc # 0 \/ p.out = <<>>

(* the answer is the one state PENDING or the one state RUNNING *)
ReportsQueued(p) ==
    ~NotFound(p) /\ (Surrounds(p.out, S_PENDING) \/ Surrounds(p.out, S_RUNNING))

(* C5: get_status never raises; it returns the sentinel when the query     *)
(* exits non-zero or prints nothing, and the reported state otherwise;      *)
(* is_queued is false in the sentinel cases and true exactly when the       *)
(* status is PENDING or RUNNING.                                            *)
C5_StatusBestEffort ==
    obs.op \in {"get_status", "is_queued"}
    => /\ obs.err = "none"
       /\ NotFound(obs.reply) => obs.status = S_NOT_FOUND
       /\ ~NotFound(obs.reply)
            => Trimmed(obs.status) /\ Surrounds(obs.reply.out, obs.status)
       /\ obs.op = "is_queued"
            => /\ obs.queued <=> obs.status \in {S_PENDING, S_RUNNING}
               /\ NotFound(obs.reply) => ~obs.queued
               /\ obs.queued <=> ReportsQueued(obs.reply)

C5_Witness ==
    /\ obs.op = "is_queued"
    /\ obs.reply = Proc(0, <<>>)
    /\ obs.status = S_NOT_FOUND
    /\ ~obs.queued

Holding == obs.op = "hold_for_completion"

(* C6: hold_for_completion returns only right after a poll whose result     *)
(* is neither PENDING nor RUNNING; after a poll that reported PENDING or    *)
(* RUNNING it sleeps and polls again; each iteration issues one query.      *)
C6_ReturnsAfterUnqueuedPoll ==
    Holding
    => /\ pc = "check" => obs.queries = 0
       /\ pc = "sleep" => obs.queries = 1 /\ obs.status \in {S_PENDING, S_RUNNING}
       /\ pc = "done" => /\ obs.queries = 1
                         /\ obs.status \notin {S_PENDING, S_RUNNING}
                         /\ ~ReportsQueued(obs.reply)
       /\ pc \in {"check", "sleep", "done"}

C6_Witness ==
    /\ Holding
    /\ pc = "done"
    /\ obs.polls = MaxPolls
    /\ obs.status = S_COMPLETING

(* C7: under FairJobSpec, once the scheduler stops for good reporting the  *)
(* job as PENDING or RUNNING (the failing query included) every             *)
(* hold_for_completion in progress returns; and it never goes from a poll   *)
(* that reported PENDING or RUNNING to its return.                          *)
C7_HoldTerminates ==
    /\ (<>[](~ReportsQueued(sched)))
         => []((Holding /\ pc \in {"check", "sleep"}) => <>(pc = "done"))
    /\ []((Holding /\ pc = "done") => ~ReportsQueued(obs.reply))
    /\ []((Holding /\ pc = "sleep") => ReportsQueued(obs.reply))

C7_Witness ==
    /\ Holding
    /\ pc = "done"
    /\ obs.polls >= 2
    /\ obs.reply.rc # 0
    /\ obs.status = S_NOT_FOUND

(* C8: cancel runs scancel for the handle's job identifier whatever the    *)
(* queue says, returns true exactly when scancel exits zero, and never      *)
(* raises.                                                                  *)
C8_CancelUnconditional ==
    obs.op = "cancel"
    => /\ obs.ran
       /\ obs.argv = Argv("scancel", job.job_id)
       /\ job.job_id = <<"4", "8", "2", "1">>
       /\ obs.ret <=> obs.reply.rc = 0
       /\ obs.err = "none"

C8_Witness ==
    /\ obs.op = "cancel"
    /\ ~ReportsQueued(sched)
    /\ obs.ran
    /\ obs.ret

(* ------------------------------------------------------------------ *)
(* The rendered script: claims C9 and C10                              *)
(* ------------------------------------------------------------------ *)
D_prefix == <<"#", "S", "B", "A", "T", "C", "H", " ", "-", "-">>

(* the option name sbatch knows each directive of Keys by *)
HyphenName(key) ==
    IF key = K_job_name THEN <<"j", "o", "b", "-", "n", "a", "m", "e">> ELSE key

ValText(v) ==
    CASE v.t = "str" -> v.s
      [] v.t = "int" -> IntStr(v.n)
      [] v.t = "none" -> <<"N", "o", "n", "e">>

(* the c of cuts with j - 1 members of cuts below it *)
NthCut(cuts, j) == CHOOSE c \in cuts : Cardinality({x \in cuts : x < c}) = j - 1

(* the lines of a text: what lies between two consecutive line ends *)
LinesOf(text) ==
    CHOOSE r \in
        { [j \in 1..(Cardinality(cuts) - 1) |->
              SubSeq(text, NthCut(cuts, j) + 1, NthCut(cuts, j + 1) - 1)] :
            cuts \in { {0, Len(text) + 1}
                         \cup {i \in 1..Len(text) : text[i] = "\n"} } } : TRUE

ScriptLines(cfg) == CHOOSE r \in { LinesOf(text) : text \in {ConfigStr(cfg)} } : TRUE

IsDirectiveLine(line) ==
    Len(line) >= Len(D_prefix) /\ SubSeq(line, 1, Len(D_prefix)) = D_prefix

(* name and value of a directive line: the text before and after the first "=" *)
LineName(line) == Split1(SubSeq(line, Len(D_prefix) + 1, Len(line)), "=")[1]

LineValue(line) == Split1(SubSeq(line, Len(D_prefix) + 1, Len(line)), "=")[2]

RenderedDirectives(cfg) == SelectSeq(ScriptLines(cfg), IsDirectiveLine)

(* the value add_arguments stores for a pair it does not transform *)
StoredAsGiven(kv) ==
    kv.key # K_array /\ ~(kv.key = K_time /\ kv.val.t = "timedelta")

C9_Step ==
    call'.op = "add_arguments"
    => \E r \in {RenderedDirectives(config')} :
       LET a == config.args
           b == config'.args
           kw == call'.kwargs
       IN /\ Len(b) >= Len(a)
          /\ \A i \in 1..Len(a) : b[i].key = a[i].key
          /\ \A i, j \in 1..Len(b) : i # j => b[i].key # b[j].key
          /\ \A i, j \in (Len(a) + 1)..Len(b) :
                i < j => \E x, y \in 1..Len(kw) :
                            x < y /\ kw[x].key = b[i].key /\ kw[y].key = b[j].key
          /\ call'.err = "none" => \A x \in 1..Len(kw) : HasKey(b, kw[x].key)
          /\ Len(r) = Len(b)
          /\ \A i \in 1..Len(b) : LineName(r[i]) = HyphenName(b[i].key)
          /\ \A x \in 1..Len(kw) :
                (call'.err = "none" /\ StoredAsGiven(kw[x]))
                => \E i \in 1..Len(b) :
                      /\ b[i].key = kw[x].key
                      /\ LineValue(r[i]) = ValText(kw[x].val)

(* C9: across every add_arguments call the directive names stay unique,    *)
(* the names present keep their places, new names go last in the order      *)
(* given, a name set again carries the new value, and the script lists      *)
(* the directives in that order.                                            *)
C9_DirectiveOrder == [][C9_Step]_vars

(* partition=gpu, time=1:00, partition=cpu *)
C9_Witness ==
    /\ call.op = "add_arguments"
    /\ call.kwargs = <<KV(K_partition, V_cpu)>>
    /\ config.args = <<KV(K_partition, V_cpu), KV(K_time, V_1_00)>>
    /\ \E r \in {RenderedDirectives(config)} :
          Len(r) = 2 /\ LineValue(r[1]) = V_cpu.s

(* C10: the script is the line #!<shell>, one line                         *)
(* #SBATCH --<hyphenated name>=<value> per directive in insertion order,    *)
(* then the commands verbatim in the order added; every directive line      *)
(* comes before every command line.                                         *)
C10_ScriptLayout ==
    \E lines \in {ScriptLines(config)} :
    LET n == Len(config.args)
    IN /\ Len(lines) = 1 + n + Len(config.commands)
       /\ lines[1] = <<"#", "!">> \o Format(config.shell)
       /\ \A i \in 1..n :
             lines[1 + i] = D_prefix \o HyphenName(config.args[i].key) \o <<"=">>
                              \o ValText(config.args[i].val)
       /\ \A j \in 1..Len(config.commands) : lines[1 + n + j] = config.commands[j]

(* a directive with an underscore added after two commands *)
C10_Witness ==
    /\ call.op = "add_arguments"
    /\ call.kwargs = <<KV(K_job_name, V_test)>>
    /\ config.shell = StrVal(S_bin_bash)
    /\ config.args = <<KV(K_partition, V_gpu), KV(K_job_name, V_test)>>
    /\ config.commands = <<C_sleep, C_echo>>

(* ------------------------------------------------------------------ *)
(* Normalisation by add_arguments: claims C11 to C15                   *)
(* ------------------------------------------------------------------ *)
ArrayCall(v) == call.op = "add_arguments" /\ call.kwargs = <<KV(K_array, v)>>

AnyArrayCall ==
    /\ call.op = "add_arguments"
    /\ Len(call.kwargs) = 1
    /\ call.kwargs[1].key = K_array

AnyTimeCall ==
    /\ call.op = "add_arguments"
    /\ Len(call.kwargs) = 1
    /\ call.kwargs[1].key = K_time

(* the integers lo..hi in ascending order, as a for-loop would visit them *)
Ascending(lo, hi) == [i \in 1..(hi - lo + 1) |-> IntVal(lo + i - 1)]

StoredArray == DictGet(config.args, K_array)

Iteration == Items(config.attrs[K_array])

(* C11: whatever array value add_arguments accepts, the stored directive    *)
(* reads "low-high" and the iteration kept for the handles visits every     *)
(* integer of [low, high], high-low+1 of them.                              *)
C11_IterationCoversRenderedRange ==
    (AnyArrayCall /\ call.err = "none")
    => \E lo \in 0..(MaxIndex + 1), hi \in 0..(MaxIndex + 1) :
          /\ lo <= hi
          /\ StoredArray = RangeString(lo, hi)
          /\ Iteration = Ascending(lo, hi)

(* C12: add_arguments(array=n) for an integer n >= 0 stores "0-n" and an    *)
(* iteration of exactly the n+1 integers 0..n.                              *)
C12_IntArray ==
    \A n \in 0..(MaxIndex + 1) :
        ArrayCall(IntVal(n))
        => /\ call.err = "none"
           /\ StoredArray = StrVal(<<"0", "-">> \o IntStr(n))
           /\ Len(Iteration) = n + 1
           /\ Iteration = Ascending(0, n)

C12_Witness ==
    /\ ArrayCall(IntVal(MaxIndex))
    /\ is_array_job(config)
    /\ Len(Iteration) = MaxIndex + 1

(* C13: add_arguments(array="a-b") for non-negative integers a <= b stores  *)
(* "a-b" and an iteration of exactly the b-a+1 integers a..b, ascending.    *)
C13_RangeStringArray ==
    \A a \in 0..(MaxIndex + 1), b \in 0..(MaxIndex + 1) :
        (a <= b /\ ArrayCall(RangeString(a, b)))
        => /\ call.err = "none"
           /\ StoredArray = RangeString(a, b)
           /\ Len(Iteration) = b - a + 1
           /\ Iteration = Ascending(a, b)

C13_Witness ==
    /\ ArrayCall(RangeString(2, MaxIndex))
    /\ is_array_job(config)
    /\ Len(Iteration) = MaxIndex - 1

AllDigits(s) == s # <<>> /\ \A i \in 1..Len(s) : IsDigit(s[i])

TwoDigits(s) == Len(s) = 2 /\ AllDigits(s)

(* s reads D-HH:MM:SS and decomposes into total whole seconds *)
ReadsAsDuration(s, total) ==
    \E parts \in {Split(s, "-")} :
       /\ Len(parts) = 2
       /\ AllDigits(parts[1])
       /\ (Len(parts[1]) = 1 \/ parts[1][1] # "0")
       /\ \E hms \in {Split(parts[2], ":")} :
             /\ Len(hms) = 3
             /\ \A i \in 1..3 : TwoDigits(hms[i])
             /\ DigitsVal(hms[1], 0) < 24
             /\ DigitsVal(hms[2], 0) < 60
             /\ DigitsVal(hms[3], 0) < 60
             /\ DigitsVal(parts[1], 0) * 86400 + DigitsVal(hms[1], 0) * 3600
                  + DigitsVal(hms[2], 0) * 60 + DigitsVal(hms[3], 0) = total

(* C14: a time given as a duration of s whole seconds is stored as          *)
(* D-HH:MM:SS with HH < 24, MM < 60, SS < 60, two digits each, D unpadded,  *)
(* and D*86400 + HH*3600 + MM*60 + SS = s; any other time value is stored   *)
(* exactly as given.                                                        *)
C14_TimeNormalisation ==
    AnyTimeCall
    => \E v \in {call.kwargs[1].val} :
          /\ call.err = "none"
          /\ HasKey(config.args, K_time)
          /\ IF v.t = "timedelta"
             THEN /\ DictGet(config.args, K_time).t = "str"
                  /\ ReadsAsDuration(DictGet(config.args, K_time).s, v.n)
             ELSE DictGet(config.args, K_time) = v

C14_Witness ==
    /\ AnyTimeCall
    /\ call.kwargs[1].val.t = "timedelta"
    /\ call.kwargs[1].val.n > 10 * SecondsPerDay + 23 * SecondsPerHour
    /\ HasKey(config.args, K_time)

Reversed(v) ==
    \E a \in 0..(MaxIndex + 1), b \in 0..(MaxIndex + 1) : a > b /\ v = RangeString(a, b)

NoHyphen(v) == \E n \in 0..(MaxIndex + 1) : v = StrVal(IntStr(n))

NoArrayStored == ~is_array_job(config) /\ config.attrs[K_array] = NoAttr

(* C15 as stated: a range string with no hyphen, or with reversed bounds,   *)
(* makes add_arguments raise and no array directive is stored.              *)
C15_MalformedArrayRaises ==
    (AnyArrayCall /\ (Reversed(call.kwargs[1].val) \/ NoHyphen(call.kwargs[1].val)))
    => (call.err # "none" /\ NoArrayStored)

(* C15: a range string with reversed bounds makes add_arguments raise and   *)
(* no array directive is stored; a string "n" with no hyphen is accepted    *)
(* and stored as "n-n", iterating over the one integer n.                   *)
C15_ReversedRaisesSingleAccepted ==
    AnyArrayCall
    => /\ Reversed(call.kwargs[1].val) => (call.err = "IndexError" /\ NoArrayStored)
       /\ \A n \in 0..(MaxIndex + 1) :
             call.kwargs[1].val = StrVal(IntStr(n))
             => /\ call.err = "none"
                /\ StoredArray = RangeString(n, n)
                /\ Iteration = <<IntVal(n)>>

C15_Witness ==
    /\ ArrayCall(RangeString(3, 1))
    /\ call.err = "IndexError"
    /\ NoArrayStored

(* ------------------------------------------------------------------ *)
(* Submission again: claims C16, C17, C19                              *)
(* ------------------------------------------------------------------ *)
(* the scontrol call made last during the sbatch call exited non-zero *)
LastInspectionFailed ==
    /\ Submitted
    /\ call.inspects >= 1
    /\ InspectAt(call.insp, call.inspects).rc # 0

(* C16: when the scontrol call made for a handle exits non-zero, sbatch     *)
(* raises to its caller and returns no handle, although the sbatch command  *)
(* itself succeeded; the manager keeps an empty job list.                   *)
C16_InspectFailurePropagates ==
    LastInspectionFailed
    => /\ call.sub.rc = 0
       /\ call.err = "CalledProcessError"
       /\ call.ret = <<>>
       /\ slurm.jobs = <<>>

C16_Witness ==
    /\ LastInspectionFailed
    /\ call.inspects = 2
    /\ InspectAt(call.insp, 1).rc = 0
    /\ call.err = "CalledProcessError"

FirstLine(text) == LinesOf(text)[1]

(* C17: the script sbatch writes begins with #! and the shell given to      *)
(* sbatch, or with the shell of the configuration when none is given.       *)
C17_ShellOverride ==
    (Submitted /\ call.wrote)
    => FirstLine(call.script)
         = S_shebang \o Format(IF call.shell = NoneVal THEN config.shell ELSE call.shell)

(* the array directive is the value given at construction, which            *)
(* add_arguments never saw                                                  *)
ArrayAsConstructed == is_array_job(config) /\ config.attrs[K_array].t \in {"str", "int"}

(* C19: an array value given as an initial directive makes a successful     *)
(* submit return the handles the same value gives when it is passed to      *)
(* add_arguments: one per integer of the range.                             *)
C19_InitialArrayFansOut ==
    (Submitted /\ ArrayAsConstructed /\ call.sub.rc = 0 /\ HasAck(call.sub.out)
       /\ InspectionSucceeds)
    => \E viaAdd \in {add_arguments(config, <<KV(K_array, config.attrs[K_array])>>)} :
          \E made \in {MakeJobs(AckId(call.sub.out), slurm, viaAdd.cfg, call.insp)} :
             /\ call.err = "none"
             /\ Len(call.ret) >= 1
             /\ call.ret = made.jobs

(* ------------------------------------------------------------------ *)
(* The manager's getters: claim C18                                    *)
(* ------------------------------------------------------------------ *)
(* C18: get_commands returns the list of the commands added so far, in the  *)
(* order they were added, and not the mapping of directives.                *)
C18_GetCommandsReturnsCommands ==
    call.op = "get_commands"
    => /\ call.value.t = "list"
       /\ call.value.items = config.commands

(* ------------------------------------------------------------------ *)
(* Array jobs in the queue: claim C20                                  *)
(* ------------------------------------------------------------------ *)
(* the state tokens of a squeue answer, one per line *)
TaskStates(p) ==
    IF p.rc # 0 THEN <<>>
    ELSE SelectSeq([i \in 1..Len(Split(p.out, "\n")) |-> Strip(Split(p.out, "\n")[i])],
                   LAMBDA line : line # <<>>)

AnyTaskQueued(p) ==
    \E i \in 1..Len(TaskStates(p)) : TaskStates(p)[i] \in {S_PENDING, S_RUNNING}

(* C20: for a handle of an array job, is_queued is true and                 *)
(* hold_for_completion does not return while squeue still lists a task of   *)
(* the job as PENDING or RUNNING, two or more tasks at once included.       *)
C20_QueuedWhileAnyTaskQueued ==
    job.array_job_id # <<>>
    => /\ (obs.op = "is_queued" /\ AnyTaskQueued(obs.reply)) => obs.queued
       /\ (Holding /\ pc = "done") => ~AnyTaskQueued(obs.reply)

====
